---- MODULE Spec2Model ----
(***************************************************************************)
(* A model of lib/urlencoded.js: the urlencoded body-parsing middleware.   *)
(* Options records live on a heap (the constructor stores the caller's own *)
(* record, not a copy); a middleware instance is the closure over one heap *)
(* record; a request goes through the gates of checkParse, the external    *)
(* Reader and the query decoder built by extendedparser / simpleparser.    *)
(***************************************************************************)
EXTENDS Integers, Sequences, FiniteSets, TLC

\* ------------------------------------------------------------------ bounds

\* Longest request body the stream delivers (characters).
MaxBodyLen == 3

\* Most invocations of a middleware on one request.
MaxInvocations == 2

\* ------------------------------------------------------- program constants

DefaultParameterLimit == 1000

MinArrayLimit == 100

StatusUnsupportedCharset == 415

StatusTooManyParameters == 413

Two16 == 256 * 256

Two15 == 128 * 256

\* ------------------------------------------------------------- JS numbers
\* A number is NaN, +/-Infinity or a finite value (-1)^neg * (hi*2^16 + lo +
\* half/2): two 16-bit halves keep the 32-bit width of `x | 0` exact.

NaN == [k |-> "nan", neg |-> FALSE, hi |-> 0, lo |-> 0, half |-> FALSE]

Infinity == [k |-> "inf", neg |-> FALSE, hi |-> 0, lo |-> 0, half |-> FALSE]

NegInfinity == [k |-> "inf", neg |-> TRUE, hi |-> 0, lo |-> 0, half |-> FALSE]

Fin(neg, hi, lo, half) == [k |-> "fin", neg |-> neg, hi |-> hi, lo |-> lo, half |-> half]

\* The number n, for an integer n of at most 31 bits.
Num(n) ==
  LET m == IF n < 0 THEN 0 - n ELSE n
  IN  Fin(n < 0, m \div Two16, m % Two16, FALSE)

\* x < 1 on numbers (NaN compares false).
LessThanOne(x) ==
  CASE x.k = "nan" -> FALSE
    [] x.k = "inf" -> x.neg
    [] OTHER -> x.neg \/ (x.hi = 0 /\ x.lo = 0)

\* x | 0 on a finite number: truncate toward zero, wrap modulo 2^32, read as
\* a signed 32-bit integer.
ToInt32(x) ==
  LET h == x.hi % Two16
      zero == h = 0 /\ x.lo = 0
      \* two's complement of the magnitude, for a negative value
      nlo == (Two16 - x.lo) % Two16
      nhi == (Two16 - 1 - h + (IF x.lo = 0 THEN 1 ELSE 0)) % Two16
      uhi == IF x.neg /\ ~zero THEN nhi ELSE h
      ulo == IF x.neg /\ ~zero THEN nlo ELSE x.lo
  IN  IF uhi >= Two15 THEN (uhi - Two16) * Two16 + ulo ELSE uhi * Two16 + ulo

\* -------------------------------------------------------------- JS values
\* A string is held by its characters (str) or, where the program never
\* looks inside it, as an opaque token (tok); a function is held by a token.

Undefined == [t |-> "undefined", b |-> FALSE, num |-> NaN, str |-> <<>>, tok |-> ""]

Null == [t |-> "null", b |-> FALSE, num |-> NaN, str |-> <<>>, tok |-> ""]

Bool(b) == [t |-> "boolean", b |-> b, num |-> NaN, str |-> <<>>, tok |-> ""]

Number(x) == [t |-> "number", b |-> FALSE, num |-> x, str |-> <<>>, tok |-> ""]

String(s) == [t |-> "string", b |-> FALSE, num |-> NaN, str |-> s, tok |-> ""]

Token(s) == [t |-> "string", b |-> FALSE, num |-> NaN, str |-> <<>>, tok |-> s]

Function(name) == [t |-> "function", b |-> FALSE, num |-> NaN, str |-> <<>>, tok |-> name]

Object(name) == [t |-> "object", b |-> FALSE, num |-> NaN, str |-> <<>>, tok |-> name]

\* The empty mapping `{}`.
EmptyMapping == Object("{}")

\* typeof v (null is an object to typeof).
TypeOf(v) == IF v.t = "null" THEN "object" ELSE v.t

\* Boolean(v): what `||`, `!` and `if` see.
Truthy(v) ==
  CASE v.t = "undefined" -> FALSE
    [] v.t = "null" -> FALSE
    [] v.t = "boolean" -> v.b
    [] v.t = "number" -> v.num.k # "nan" /\ ~(v.num.k = "fin" /\ v.num.hi = 0 /\ v.num.lo = 0 /\ ~v.num.half)
    [] v.t = "string" -> v.str # <<>> \/ v.tok # ""
    [] OTHER -> TRUE

\* a || b
Or(a, b) == IF Truthy(a) THEN a ELSE b

Digits == <<"0", "1", "2", "3", "4", "5", "6", "7", "8", "9">>

IsDigit(c) == \E i \in 1..10 : Digits[i] = c

DigitValue(c) == (CHOOSE i \in 1..10 : Digits[i] = c) - 1

RECURSIVE DecimalValue(_)
DecimalValue(s) ==
  IF s = <<>> THEN 0
  ELSE DecimalValue(SubSeq(s, 1, Len(s) - 1)) * 10 + DigitValue(s[Len(s)])

\* Number(s) for a string: the empty string is 0, a run of decimal digits is
\* its value, the literal Infinity is Infinity, anything else here is NaN.
StringToNumber(s) ==
  CASE s = <<>> -> Num(0)
    [] s # <<>> /\ (\A i \in 1..Len(s) : IsDigit(s[i])) -> Num(DecimalValue(s))
    [] s = <<"I", "n", "f", "i", "n", "i", "t", "y">> -> Infinity
    [] OTHER -> NaN

\* The numeric coercion isNaN, isFinite, `<` and `|` apply to a value.
ToNumber(v) ==
  CASE v.t = "number" -> v.num
    [] v.t = "null" -> Num(0)
    [] v.t = "boolean" -> IF v.b THEN Num(1) ELSE Num(0)
    [] v.t = "string" /\ v.tok = "" -> StringToNumber(v.str)
    [] OTHER -> NaN

isNaN(v) == ToNumber(v).k = "nan"

isFinite(v) == ToNumber(v).k = "fin"

\* ---------------------------------------------------------------- strings

Upper == <<"A", "B", "C", "D", "E", "F", "G", "H", "I", "J", "K", "L", "M",
           "N", "O", "P", "Q", "R", "S", "T", "U", "V", "W", "X", "Y", "Z">>

Lower == <<"a", "b", "c", "d", "e", "f", "g", "h", "i", "j", "k", "l", "m",
           "n", "o", "p", "q", "r", "s", "t", "u", "v", "w", "x", "y", "z">>

LowerChar(c) ==
  IF \E i \in 1..26 : Upper[i] = c THEN Lower[CHOOSE i \in 1..26 : Upper[i] = c] ELSE c

UpperChar(c) ==
  IF \E i \in 1..26 : Lower[i] = c THEN Upper[CHOOSE i \in 1..26 : Lower[i] = c] ELSE c

toLowerCase(s) == [i \in 1..Len(s) |-> LowerChar(s[i])]

toUpperCase(s) == [i \in 1..Len(s) |-> UpperChar(s[i])]

Utf8 == <<"u", "t", "f", "-", "8">>

\* body.indexOf(ch, from), with JavaScript's 0-based positions; -1 if absent.
indexOf(body, ch, from) ==
  LET hits == {i \in from..(Len(body) - 1) : body[i + 1] = ch}
  IN  IF hits = {} THEN -1 ELSE CHOOSE i \in hits : \A j \in hits : i <= j

\* --------------------------------------------------------- errors, results

\* What next() is called with: NoError for next(), else the error's fields.
NoError == [status |-> 0, type |-> "", charset |-> <<>>, message |-> <<>>]

HttpError(status, type, charset, message) ==
  [status |-> status, type |-> type, charset |-> charset, message |-> message]

\* The mapping an external parser (qs or querystring) makes of a body: the
\* model keeps which parser made it and from which characters.
Mapping(by, body) == [t |-> "object", b |-> FALSE, num |-> NaN, str |-> body, tok |-> by]

\* ------------------------------------------------------ Parameter Counter

\* Mutant of ReachedLimit: `count > limit`, one separator too late.
ReachedLimitLate(count, limit) == limit.finite /\ count > limit.n

\* `count === limit` for the coerced ceiling: never true of a non-finite one.
ReachedLimit(count, limit) == limit.finite /\ limit.n = count

\* The while loop of parameterCount from the state (count, index), having
\* run iters iterations. over = TRUE is the `return undefined`.
RECURSIVE parameterCountLoop(_, _, _, _, _)
parameterCountLoop(body, limit, count, index, iters) ==
  LET found == indexOf(body, "&", index)
  IN  IF found = -1
      THEN [over |-> FALSE, count |-> count, iters |-> iters, scanned |-> Len(body)]
      ELSE IF ReachedLimit(count + 1, limit)
           THEN [over |-> TRUE, count |-> count + 1, iters |-> iters + 1, scanned |-> found + 1]
           ELSE parameterCountLoop(body, limit, count + 1, found + 1, iters + 1)

\* Mutant of parameterCount: every separator of the body is counted before
\* the count is compared with the ceiling.
parameterCountFull(body, limit) ==
  LET full == parameterCountLoop(body, [finite |-> FALSE, n |-> 0], 0, 0, 0)
  IN  [over |-> limit.finite /\ full.count >= limit.n, count |-> full.count,
       iters |-> full.iters, scanned |-> Len(body)]

parameterCount(body, limit) == parameterCountLoop(body, limit, 0, 0, 0)

\* ------------------------------------------------------------ parser cache

ParserNames == {"qs", "querystring"}

\* Mutant of parser: the cache is not consulted; every lookup loads the
\* module and stores it.
parserUncached(cache, name) ==
  [parse |-> name, parsers |-> [cache EXCEPT ![name] = name], required |-> TRUE]

\* parser(name) on the cache `cache`: the parse function returned (named by
\* its module), the cache afterwards, and whether require() was invoked.
parser(cache, name) ==
  IF cache[name] # "undefined"
  THEN [parse |-> cache[name], parsers |-> cache, required |-> FALSE]
  ELSE [parse |-> name, parsers |-> [cache EXCEPT ![name] = name], required |-> TRUE]

\* --------------------------------------------------------- Query Decoders

\* A decoder closure: its mode, the parse function it captured and the
\* coerced ceiling. NoDecoder is an opts.queryparse never assigned.
NoDecoder == [mode |-> "none", parse |-> "undefined", limit |-> [finite |-> FALSE, n |-> 0]]

\* `options.parameterLimit !== undefined ? options.parameterLimit : 1000`
GivenParameterLimit(options) ==
  IF options.parameterLimit # Undefined
  THEN options.parameterLimit
  ELSE Number(Num(DefaultParameterLimit))

\* Mutant of RejectsParameterLimit: `parameterLimit < 0`, which lets 0 in.
RejectsParameterLimitBelowZero(v) ==
  isNaN(v) \/ (ToNumber(v).neg /\ (ToNumber(v).k = "inf" \/ ToNumber(v).hi > 0
                                        \/ ToNumber(v).lo > 0 \/ ToNumber(v).half))

\* `isNaN(parameterLimit) || parameterLimit < 1`
RejectsParameterLimit(v) == isNaN(v) \/ LessThanOne(ToNumber(v))

\* `if (isFinite(parameterLimit)) parameterLimit = parameterLimit | 0`
CoerceParameterLimit(v) ==
  IF isFinite(v)
  THEN [finite |-> TRUE, n |-> ToInt32(ToNumber(v))]
  ELSE [finite |-> FALSE, n |-> 0]

\* The body shared by extendedparser and simpleparser, up to the returned
\* closure: the parser lookup comes before the validation.
BuildDecoder(options, cache, mode, name) ==
  LET given == GivenParameterLimit(options)
      got == parser(cache, name)
  IN  IF RejectsParameterLimit(given)
      THEN [threw |-> "option parameterLimit must be a positive number",
            decoder |-> NoDecoder, parsers |-> got.parsers,
            required |-> IF got.required THEN {name} ELSE {}]
      ELSE [threw |-> "",
            decoder |-> [mode |-> mode, parse |-> got.parse, limit |-> CoerceParameterLimit(given)],
            parsers |-> got.parsers,
            required |-> IF got.required THEN {name} ELSE {}]

extendedparser(options, cache) == BuildDecoder(options, cache, "extended", "qs")

simpleparser(options, cache) == BuildDecoder(options, cache, "simple", "querystring")

\* Math.max(100, paramCount)
ArrayLimit(paramCount) == IF paramCount > MinArrayLimit THEN paramCount ELSE MinArrayLimit

\* One call of a decoder closure on a body: the error thrown or the value
\* returned, with what was handed to the external parser (parsed = FALSE when
\* it was not called).
queryparse(decoder, body) ==
  LET counted == parameterCount(body, decoder.limit)
  IN  IF counted.over
      THEN [threw |-> TRUE,
            error |-> HttpError(StatusTooManyParameters, "parameters.too.many", <<>>, <<>>),
            value |-> Undefined, counted |-> counted, parsed |-> FALSE,
            arrayLimit |-> 0, depth |-> "", parameterLimit |-> decoder.limit,
            maxKeys |-> decoder.limit]
      ELSE [threw |-> FALSE, error |-> NoError,
            value |-> Mapping(decoder.parse, body), counted |-> counted, parsed |-> TRUE,
            arrayLimit |-> IF decoder.mode = "extended" THEN ArrayLimit(counted.count) ELSE 0,
            depth |-> IF decoder.mode = "extended" THEN "Infinity" ELSE "",
            parameterLimit |-> decoder.limit,
            maxKeys |-> decoder.limit]

\* ---------------------------------------------------------------- requests
\* A request: the already-parsed marker `_body`, the body field, whether
\* type-is classifies it as having a body, and its content-type header:
\* absent, unparsable, or a media type with a charset parameter (<<>> when
\* the header gives none).

FormType == "application/x-www-form-urlencoded"

JsonType == "application/json"

NoHeader == [st |-> "absent", media |-> "", charset |-> <<>>]

BadHeader == [st |-> "invalid", media |-> "", charset |-> <<>>]

Header(media, charset) == [st |-> "valid", media |-> media, charset |-> charset]

\* Mutant of getCharset: the charset as written, not lower-cased.
getCharsetAsWritten(req) ==
  IF req.header.st = "valid" THEN String(req.header.charset) ELSE Undefined

\* getCharset(req): contentType.parse throws on an absent or unparsable
\* header, and the catch returns undefined.
getCharset(req) ==
  IF req.header.st = "valid"
  THEN String(toLowerCase(req.header.charset))
  ELSE Undefined

\* typeis(req, type) as a boolean: a body, a parsable media type, and a match.
typeis(req, type) ==
  /\ req.hasBody
  /\ req.header.st = "valid"
  /\ type.t = "string"
  /\ req.header.media = type.tok

\* A caller's own type predicate, by name: acceptNotJson takes every request
\* but those whose media type is application/json.
CallPredicate(name, req) ==
  CASE name = "acceptNotJson" -> ~(req.header.st = "valid" /\ req.header.media = JsonType)
    [] OTHER -> FALSE

\* typeChecker(type): the closure checkType over `type`.
typeChecker(type) == [fn |-> "checkType", type |-> type]

\* An opts.shouldParse never assigned.
NoChecker == [fn |-> "undefined", type |-> Undefined]

\* self.shouldParse(req)
shouldParse(checker, req) ==
  IF checker.fn = "checkType"
  THEN typeis(req, checker.type)
  ELSE CallPredicate(checker.fn, req)

\* Mutant of checkParse: no `return false` after the charset error, so the
\* middleware goes on to Reader after next(err).
checkParseFallsThrough(req, self, charset) ==
  CASE req._body -> [proceed |-> FALSE, nexts |-> <<NoError>>, gate |-> "parsed"]
    [] ~req._body /\ ~req.hasBody ->
         [proceed |-> FALSE, nexts |-> <<NoError>>, gate |-> "bodiless"]
    [] ~req._body /\ req.hasBody /\ ~shouldParse(self.shouldParse, req) ->
         [proceed |-> FALSE, nexts |-> <<NoError>>, gate |-> "type"]
    [] ~req._body /\ req.hasBody /\ shouldParse(self.shouldParse, req)
       /\ charset # String(Utf8) ->
         [proceed |-> TRUE,
          nexts |-> <<HttpError(StatusUnsupportedCharset, "charset.unsupported",
                                charset.str, toUpperCase(charset.str))>>,
          gate |-> "charset"]
    [] OTHER -> [proceed |-> TRUE, nexts |-> <<>>, gate |-> "none"]

\* Mutant of checkParse: the media-type gate left out.
checkParseNoTypeGate(req, self, charset) ==
  CASE req._body -> [proceed |-> FALSE, nexts |-> <<NoError>>, gate |-> "parsed"]
    [] ~req._body /\ ~req.hasBody ->
         [proceed |-> FALSE, nexts |-> <<NoError>>, gate |-> "bodiless"]
    [] ~req._body /\ req.hasBody /\ charset # String(Utf8) ->
         [proceed |-> FALSE,
          nexts |-> <<HttpError(StatusUnsupportedCharset, "charset.unsupported",
                                charset.str, toUpperCase(charset.str))>>,
          gate |-> "charset"]
    [] OTHER -> [proceed |-> TRUE, nexts |-> <<>>, gate |-> "none"]

\* Mutant of checkParse: the charset asserted before the eligibility checks.
checkParseCharsetFirst(req, self, charset) ==
  CASE charset # String(Utf8) ->
         [proceed |-> FALSE,
          nexts |-> <<HttpError(StatusUnsupportedCharset, "charset.unsupported",
                                charset.str, toUpperCase(charset.str))>>,
          gate |-> "charset"]
    [] charset = String(Utf8) /\ req._body ->
         [proceed |-> FALSE, nexts |-> <<NoError>>, gate |-> "parsed"]
    [] charset = String(Utf8) /\ ~req._body /\ ~req.hasBody ->
         [proceed |-> FALSE, nexts |-> <<NoError>>, gate |-> "bodiless"]
    [] charset = String(Utf8) /\ ~req._body /\ req.hasBody
       /\ ~shouldParse(self.shouldParse, req) ->
         [proceed |-> FALSE, nexts |-> <<NoError>>, gate |-> "type"]
    [] OTHER -> [proceed |-> TRUE, nexts |-> <<>>, gate |-> "none"]

\* checkParse(req, res, next, self, charset): whether to go on, and what
\* next() was called with on the way.
checkParse(req, self, charset) ==
  CASE req._body -> [proceed |-> FALSE, nexts |-> <<NoError>>, gate |-> "parsed"]
    [] ~req._body /\ ~req.hasBody ->
         [proceed |-> FALSE, nexts |-> <<NoError>>, gate |-> "bodiless"]
    [] ~req._body /\ req.hasBody /\ ~shouldParse(self.shouldParse, req) ->
         [proceed |-> FALSE, nexts |-> <<NoError>>, gate |-> "type"]
    [] ~req._body /\ req.hasBody /\ shouldParse(self.shouldParse, req)
       /\ charset # String(Utf8) ->
         [proceed |-> FALSE,
          nexts |-> <<HttpError(StatusUnsupportedCharset, "charset.unsupported",
                                charset.str, toUpperCase(charset.str))>>,
          gate |-> "charset"]
    [] OTHER -> [proceed |-> TRUE, nexts |-> <<>>, gate |-> "none"]

\* Mutant of PlaceholderBody: `req.body = {}`, whatever it held.
PlaceholderBodyAlways(body) == EmptyMapping

\* `req.body = req.body || {}`
PlaceholderBody(body) == Or(body, EmptyMapping)

\* The `{}` the callback returns for an empty body: nothing was counted and
\* nothing handed to a parser.
EmptyResult ==
  [threw |-> FALSE, error |-> NoError, value |-> EmptyMapping,
   counted |-> [over |-> FALSE, count |-> 0, iters |-> 0, scanned |-> 0],
   parsed |-> FALSE, arrayLimit |-> 0, depth |-> "",
   parameterLimit |-> NoDecoder.limit, maxKeys |-> NoDecoder.limit]

\* Mutant of parseBody: no fast path, the decoder is handed every body.
parseBodyAlways(self, body) ==
  [decoder |-> self.queryparse, out |-> queryparse(self.queryparse, body)]

\* The callback handed to Reader: `body.length ? self.queryparse(body) : {}`.
\* decoder is the closure invoked (NoDecoder when none was).
parseBody(self, body) ==
  IF Len(body) # 0
  THEN [decoder |-> self.queryparse, out |-> queryparse(self.queryparse, body)]
  ELSE [decoder |-> NoDecoder, out |-> EmptyResult]

\* ------------------------------------------------------------- constructor
\* An options record: the caller's fields and the fields the constructor
\* adds to the same record.

Options(extended, parameterLimit, type, verify, limit, inflate) ==
  [extended |-> extended, parameterLimit |-> parameterLimit, type |-> type,
   verify |-> verify, limit |-> limit, inflate |-> inflate,
   parsedLimit |-> Undefined, parsedInflate |-> Undefined, parsedType |-> Undefined,
   parsedVerify |-> Undefined, queryparse |-> NoDecoder, shouldParse |-> NoChecker]

\* bytes.parse(v): the byte count of '100kb'; null for what it cannot parse.
bytesParse(v) == IF v = Token("100kb") THEN Number(Num(100 * 1024)) ELSE Null

\* lines 90-95: the four parsed* fields written onto the record.
WithParsed(opts) ==
  [opts EXCEPT
     !.parsedLimit = IF TypeOf(opts.limit) # "number"
                     THEN bytesParse(Or(opts.limit, Token("100kb")))
                     ELSE opts.limit,
     !.parsedInflate = Bool(opts.inflate # Bool(FALSE)),
     !.parsedType = Or(opts.type, Token(FormType)),
     !.parsedVerify = Or(opts.verify, Bool(FALSE))]

\* `opts.parsedVerify !== false && typeof opts.parsedVerify !== 'function'`
RejectsVerify(opts) ==
  opts.parsedVerify # Bool(FALSE) /\ TypeOf(opts.parsedVerify) # "function"

\* new UrlencodedParser(options) on the record `opts` with the parser cache
\* `cache`: the TypeError thrown ("" when none), the record as the call left
\* it, and the cache afterwards.
UrlencodedParser(opts, cache) ==
  LET o1 == WithParsed(opts)
      built == IF o1.extended # Bool(FALSE)
               THEN extendedparser(o1, cache)
               ELSE simpleparser(o1, cache)
      checker == IF TypeOf(o1.parsedType) # "function"
                 THEN typeChecker(o1.parsedType)
                 ELSE [fn |-> o1.parsedType.tok, type |-> Undefined]
  IN  IF RejectsVerify(o1)
      THEN [threw |-> "option verify must be function", opts |-> o1,
            parsers |-> cache, required |-> {}]
      ELSE IF built.threw # ""
           THEN [threw |-> built.threw, opts |-> o1, parsers |-> built.parsers,
                 required |-> built.required]
           ELSE [threw |-> "",
                 opts |-> [o1 EXCEPT !.queryparse = built.decoder, !.shouldParse = checker],
                 parsers |-> built.parsers, required |-> built.required]

\* The configuration a middleware reads from its record when it runs.
Configuration(opts) ==
  [queryparse |-> opts.queryparse, shouldParse |-> opts.shouldParse,
   parsedLimit |-> opts.parsedLimit, parsedInflate |-> opts.parsedInflate,
   parsedVerify |-> opts.parsedVerify]

\* ------------------------------------------------------------------ state

VARIABLES
  heap,      \* the options records callers hold, by record id
  prop,      \* the record each constructed middleware closes over (0: none)
  built,     \* the configuration each middleware had when constructed
  ctor,      \* the last constructor call: its record, input and outcome
  parsers,   \* the module-wide parser cache
  requires,  \* how many times require() loaded each parser module
  req,       \* the requests
  run,       \* each request's current invocation of a middleware
  probe      \* a decoder built and called alone: its input and last result

vars == <<heap, prop, built, ctor, parsers, requires, req, run, probe>>


NoOptions == Options(Undefined, Undefined, Undefined, Undefined, Undefined, Undefined)

\* No constructor call yet. given is the record as the call found it.
NoCtor == [obj |-> 0, inst |-> 0, given |-> NoOptions, threw |-> ""]

NoReaderOptions == [encoding |-> Undefined, inflate |-> Undefined, limit |-> Undefined, verify |-> Undefined]

NoConfiguration == Configuration(NoOptions)

\* A request no middleware has been invoked on. n counts the invocations;
\* before is the request as the current invocation found it.
Idle(r) ==
  [pc |-> "idle", inst |-> 0, n |-> 0, before |-> r, gate |-> "none", nexts |-> <<>>,
   reader |-> 0, readerOptions |-> NoReaderOptions, checker |-> NoChecker,
   delivered |-> <<>>, decoder |-> NoDecoder, counters |-> 0, decoders |-> 0,
   parses |-> 0, out |-> EmptyResult, overlapped |-> FALSE]

NoProbe == [decoder |-> NoDecoder, mode |-> "", given |-> Undefined, threw |-> "",
            calls |-> 0, body |-> <<>>, out |-> EmptyResult]

BodyChars == {"a", "&"}

\* The bodies a stream can deliver: every string of at most MaxBodyLen chars.
Bodies == UNION {[1..n -> BodyChars] : n \in 0..MaxBodyLen}

\* The number of '&' in a body.
Separators(body) == Cardinality({i \in 1..Len(body) : body[i] = "&"})

\* ---------------------------------------------------------------- actions

\* module.exports(options): construct middleware i from the caller's record
\* o. The constructor writes onto that record and, unless it throws, the
\* middleware returned closes over it.
Construct(i, o) ==
  /\ prop[i] = 0
  /\ LET made == UrlencodedParser(heap[o], parsers)
     IN  /\ heap' = [heap EXCEPT ![o] = made.opts]
         /\ parsers' = made.parsers
         /\ requires' = [n \in ParserNames |->
                           requires[n] + (IF n \in made.required THEN 1 ELSE 0)]
         /\ prop' = IF made.threw = "" THEN [prop EXCEPT ![i] = o] ELSE prop
         /\ built' = IF made.threw = ""
                     THEN [built EXCEPT ![i] = Configuration(made.opts)]
                     ELSE built
         /\ ctor' = [obj |-> o, inst |-> IF made.threw = "" THEN i ELSE 0,
                     given |-> heap[o], threw |-> made.threw]
  /\ UNCHANGED <<req, run, probe>>

\* The caller's fields of an options record, and values a caller gives them.
CallerValues ==
  [extended |-> {Undefined, Bool(FALSE)},
   parameterLimit |-> {Number(Num(1)), Number(Num(2))},
   limit |-> {Undefined, Number(Num(2))}]

\* The caller assigns a field of a record it holds.
CallerSets(o) ==
  /\ \E f \in DOMAIN CallerValues : \E v \in CallerValues[f] :
       /\ heap[o][f] # v
       /\ heap' = [heap EXCEPT ![o][f] = v]
  /\ UNCHANGED <<prop, built, ctor, parsers, requires, req, run, probe>>

\* The middleware (lines 62-78) up to the call of Reader: the charset, the
\* body placeholder, the gates, and the options Reader is called with.
Middleware(self, request) ==
  LET charset == Or(getCharset(request), String(Utf8))
      req1 == [request EXCEPT !.body = PlaceholderBody(@)]
      checked == checkParse(req1, self, charset)
  IN  [req |-> req1, charset |-> charset, proceed |-> checked.proceed,
       gate |-> checked.gate, nexts |-> checked.nexts,
       readerOptions |-> IF checked.proceed
                         THEN [encoding |-> charset, inflate |-> self.parsedInflate,
                               limit |-> self.parsedLimit, verify |-> self.parsedVerify]
                         ELSE NoReaderOptions]

\* Mutant of Invoke: the request in hand is kept in a variable all
\* invocations share, so a call made while another request is being read
\* runs its gates on that request's headers.
InvokeCrossed(i, r) ==
  /\ prop[i] # 0
  /\ run[r].pc \in {"idle", "done"}
  /\ run[r].n < MaxInvocations
  /\ LET self == heap[prop[i]]
         others == {x \in DOMAIN req \ {r} : run[x].pc = "reading"}
         seen == IF others = {}
                 THEN req[r]
                 ELSE [req[r] EXCEPT !.header = req[CHOOSE x \in others : TRUE].header]
         m == Middleware(self, seen)
     IN  /\ req' = [req EXCEPT ![r] = [m.req EXCEPT !.header = req[r].header]]
         /\ run' = [run EXCEPT ![r] =
                      [Idle(req[r]) EXCEPT
                         !.pc = IF m.proceed THEN "reading" ELSE "done",
                         !.inst = i,
                         !.n = run[r].n + 1,
                         !.gate = m.gate,
                         !.nexts = m.nexts,
                         !.reader = IF m.proceed THEN 1 ELSE 0,
                         !.readerOptions = m.readerOptions,
                         !.checker = self.shouldParse]]
  /\ UNCHANGED <<heap, prop, built, ctor, parsers, requires, probe>>

\* Mutant of Invoke: the decoder is run when the middleware is called,
\* before Reader has read anything.
InvokeEager(i, r) ==
  /\ prop[i] # 0
  /\ run[r].pc \in {"idle", "done"}
  /\ run[r].n < MaxInvocations
  /\ LET self == heap[prop[i]]
         m == Middleware(self, req[r])
     IN  /\ req' = [req EXCEPT ![r] = m.req]
         /\ run' = [run EXCEPT ![r] =
                      [Idle(req[r]) EXCEPT
                         !.pc = IF m.proceed THEN "reading" ELSE "done",
                         !.inst = i,
                         !.n = run[r].n + 1,
                         !.gate = m.gate,
                         !.nexts = m.nexts,
                         !.reader = IF m.proceed THEN 1 ELSE 0,
                         !.readerOptions = m.readerOptions,
                         !.checker = self.shouldParse,
                         !.decoder = IF m.proceed THEN self.queryparse ELSE NoDecoder,
                         !.decoders = IF m.proceed THEN 1 ELSE 0,
                         !.counters = IF m.proceed THEN 1 ELSE 0]]
  /\ UNCHANGED <<heap, prop, built, ctor, parsers, requires, probe>>

\* Middleware i is invoked on request r.
Invoke(i, r) ==
  /\ prop[i] # 0
  /\ run[r].pc \in {"idle", "done"}
  /\ run[r].n < MaxInvocations
  /\ LET self == heap[prop[i]]
         m == Middleware(self, req[r])
     IN  /\ req' = [req EXCEPT ![r] = m.req]
         /\ run' = [run EXCEPT ![r] =
                      [Idle(req[r]) EXCEPT
                         !.pc = IF m.proceed THEN "reading" ELSE "done",
                         !.inst = i,
                         !.n = run[r].n + 1,
                         !.gate = m.gate,
                         !.nexts = m.nexts,
                         !.reader = IF m.proceed THEN 1 ELSE 0,
                         !.readerOptions = m.readerOptions,
                         !.checker = self.shouldParse]]
  /\ UNCHANGED <<heap, prop, built, ctor, parsers, requires, probe>>

\* The errors acquisition can end with whatever the stream holds: the
\* client aborts; the body is compressed and inflate is off; verify throws.
ReaderFailures(o) ==
  {HttpError(400, "request.aborted", <<>>, <<>>)}
    \cup (IF o.inflate = Bool(FALSE)
          THEN {HttpError(415, "encoding.unsupported", <<>>, <<>>)} ELSE {})
    \cup (IF o.verify.t = "function"
          THEN {HttpError(403, "entity.verify.failed", <<>>, <<>>)} ELSE {})

\* Reader: acquisition fails; next(err), the callback is not called.
ReaderFails(r) ==
  /\ run[r].pc = "reading"
  /\ \E e \in ReaderFailures(run[r].readerOptions) :
       run' = [run EXCEPT ![r].pc = "done", ![r].nexts = Append(@, e)]
  /\ UNCHANGED <<heap, prop, built, ctor, parsers, requires, req, probe>>

\* Whether a body of these characters is over the limit given to Reader.
OverLimit(body, limit) ==
  /\ limit.t = "number"
  /\ limit.num.k = "fin"
  /\ Len(body) > limit.num.hi * Two16 + limit.num.lo

\* Reader: the stream holds more than `limit`; next(err), no callback.
ReaderOverLimit(r) ==
  /\ run[r].pc = "reading"
  /\ \E body \in Bodies :
       /\ OverLimit(body, run[r].readerOptions.limit)
       /\ run' = [run EXCEPT ![r].pc = "done",
                             ![r].nexts = Append(@, HttpError(413, "entity.too.large", <<>>, <<>>))]
  /\ UNCHANGED <<heap, prop, built, ctor, parsers, requires, req, probe>>

\* Reader: the whole body arrived within the limit; the callback decodes it.
\* If it throws, next(err); else the value becomes req.body, the request is
\* marked parsed, and next().
ReaderDelivers(r) ==
  /\ run[r].pc = "reading"
  /\ \E body \in Bodies :
       /\ ~OverLimit(body, run[r].readerOptions.limit)
       /\ LET cb == parseBody(heap[prop[run[r].inst]], body)
              ran == IF cb.decoder # NoDecoder THEN 1 ELSE 0
          IN  /\ run' = [run EXCEPT
                           ![r].pc = "done",
                           ![r].delivered = <<body>>,
                           ![r].decoder = cb.decoder,
                           ![r].decoders = @ + ran,
                           ![r].counters = @ + ran,
                           ![r].parses = @ + (IF cb.out.parsed THEN 1 ELSE 0),
                           ![r].out = cb.out,
                           ![r].overlapped = \E x \in DOMAIN req \ {r} : run[x].pc = "reading",
                           ![r].nexts = Append(@, IF cb.out.threw THEN cb.out.error ELSE NoError)]
              /\ req' = IF cb.out.threw
                        THEN req
                        ELSE [req EXCEPT ![r].body = cb.out.value, ![r]._body = TRUE]
  /\ UNCHANGED <<heap, prop, built, ctor, parsers, requires, probe>>

\* Build a decoder alone: extendedparser or simpleparser on a record whose
\* parameterLimit is v.
ProbeBuild(mode, v) ==
  /\ probe.decoder = NoDecoder
  /\ probe.threw = ""
  /\ LET options == Options(Undefined, v, Undefined, Undefined, Undefined, Undefined)
         made == IF mode = "extended"
                 THEN extendedparser(options, parsers)
                 ELSE simpleparser(options, parsers)
     IN  /\ probe' = [probe EXCEPT !.decoder = made.decoder, !.given = v,
                                   !.threw = made.threw, !.mode = mode]
         /\ parsers' = made.parsers
         /\ requires' = [n \in ParserNames |->
                           requires[n] + (IF n \in made.required THEN 1 ELSE 0)]
  /\ UNCHANGED <<heap, prop, built, ctor, req, run>>

\* Call the decoder built on one body.
ProbeDecode(body) ==
  /\ probe.decoder # NoDecoder
  /\ probe.calls = 0
  /\ probe' = [probe EXCEPT !.calls = 1, !.body = body,
                            !.out = queryparse(probe.decoder, body)]
  /\ UNCHANGED <<heap, prop, built, ctor, parsers, requires, req, run>>

\* ------------------------------------------------------------ input values

Latin1 == <<"l", "a", "t", "i", "n", "1">>

\* Charset parameters a content-type header may carry (<<>>: none).
Charsets ==
  {<<>>, Utf8, <<"U", "T", "F", "-", "8">>, <<"U", "t", "f", "-", "8">>,
   Latin1, <<"L", "a", "t", "i", "n", "1">>}

Headers == {NoHeader, BadHeader} \cup {Header(m, c) : m \in {FormType, JsonType}, c \in Charsets}

\* What req.body may hold when the middleware is invoked: nothing, the falsy
\* values a prior parser can produce, and truthy ones.
FalsyBodies == {String(<<>>), Null, Number(Num(0)), Bool(FALSE)}

BodyValues == {Undefined, EmptyMapping, Mapping("json", <<"a">>), String(<<"a">>)} \cup FalsyBodies

\* A stage that marks a request parsed has assigned its body.
Requests ==
  {q \in [_body : BOOLEAN, body : BodyValues, hasBody : BOOLEAN, header : Headers] :
     q._body => q.body # Undefined}

\* An unparsed request with a form body and no charset parameter.
PlainRequest == [_body |-> FALSE, body |-> Undefined, hasBody |-> TRUE, header |-> Header(FormType, <<>>)]

\* Options of the request-handling specification.
MainOptions ==
  {Options(e, p, t, w[1], w[2], w[3]) :
     e \in {Undefined, Bool(FALSE)},
     p \in {Number(Num(1)), Number(Num(2))},
     t \in {Undefined, Token(JsonType), Function("acceptNotJson")},
     w \in {<<Undefined, Undefined, Undefined>>,
            <<Function("verify"), Number(Num(2)), Bool(FALSE)>>}}

\* parameterLimit values given to the constructor.
ParameterLimits ==
  {Undefined, Null, Bool(TRUE), String(<<"b", "e", "e", "p">>), String(<<"2">>),
   Number(NaN), Number(Infinity), Number(NegInfinity),
   Number(Num(0)), Number(Num(-1)), Number(Fin(FALSE, 0, 0, TRUE)),
   Number(Fin(FALSE, 0, 1, TRUE)), Number(Num(1)), Number(Num(2)),
   Number(Num(DefaultParameterLimit)),
   Number(Fin(FALSE, Two15 - 1, Two16 - 1, FALSE)), Number(Fin(FALSE, Two15, 0, FALSE)),
   Number(Fin(FALSE, Two16, 0, FALSE)), Number(Fin(FALSE, Two16, 1, FALSE))}

\* verify values given to the constructor.
Verifies ==
  {Undefined, Function("verify"), Null, Number(Num(0)), String(<<>>), Bool(FALSE),
   Bool(TRUE), Number(Num(1)), Token("yes"), Object("{}")}

CtorOptions ==
  {Options(e, p, Undefined, v, Undefined, Undefined) :
     e \in {Undefined, Bool(TRUE), Bool(FALSE)}, p \in ParameterLimits, v \in Verifies}

SharedOptions ==
  {Options(e, p, Undefined, Undefined, l, Undefined) :
     e \in CallerValues.extended, p \in CallerValues.parameterLimit, l \in CallerValues.limit}

\* Ceilings whose bodies of exactly c and c-1 separators exist within MaxBodyLen.
Ceilings == {Number(Num(c)) : c \in 1..(MaxBodyLen + 1)}

\* ---------------------------------------------------------- specifications

InitWith(records, insts, requests) ==
  /\ heap \in records
  /\ prop = [i \in insts |-> 0]
  /\ built = [i \in insts |-> NoConfiguration]
  /\ ctor = NoCtor
  /\ parsers = [n \in ParserNames |-> "undefined"]
  /\ requires = [n \in ParserNames |-> 0]
  /\ req \in requests
  /\ run = [r \in DOMAIN req |-> Idle(req[r])]
  /\ probe = NoProbe

\* One middleware, one request: every option record of MainOptions against
\* every request of Requests.
Init == InitWith([{1} -> MainOptions], {1}, [{1} -> Requests])

Next ==
  \/ \E i \in DOMAIN prop, o \in DOMAIN heap : Construct(i, o)
  \/ \E i \in DOMAIN prop, r \in DOMAIN req : Invoke(i, r)
  \/ \E r \in DOMAIN req : ReaderFails(r)
  \/ \E r \in DOMAIN req : ReaderOverLimit(r)
  \/ \E r \in DOMAIN req : ReaderDelivers(r)

Spec == Init /\ [][Next]_vars

\* Construction alone, over every parameterLimit and verify value.
InitCtor == InitWith([{1} -> CtorOptions], {1, 2}, [{1} -> {PlainRequest}])

NextCtor ==
  \/ \E i \in DOMAIN prop, o \in DOMAIN heap : Construct(i, o)
  \/ \E i \in DOMAIN prop, r \in DOMAIN req : Invoke(i, r)

SpecCtor == InitCtor /\ [][NextCtor]_vars

\* Two middlewares constructed from one record the caller keeps and changes.
InitShared == InitWith([{1} -> SharedOptions], {1, 2}, [{1} -> {PlainRequest}])

NextShared ==
  \/ \E i \in DOMAIN prop, o \in DOMAIN heap : Construct(i, o)
  \/ \E o \in DOMAIN heap : CallerSets(o)
  \/ \E i \in DOMAIN prop, r \in DOMAIN req : Invoke(i, r)
  \/ \E r \in DOMAIN req : ReaderFails(r)
  \/ \E r \in DOMAIN req : ReaderOverLimit(r)
  \/ \E r \in DOMAIN req : ReaderDelivers(r)

SpecShared == InitShared /\ [][NextShared]_vars

\* Requests in flight together: an eligible one, one declaring latin1, a
\* JSON one, and one a prior stage has parsed.
ConcRequests ==
  {PlainRequest,
   [_body |-> FALSE, body |-> String(<<"a">>), hasBody |-> TRUE, header |-> Header(FormType, Latin1)],
   [_body |-> FALSE, body |-> Undefined, hasBody |-> TRUE, header |-> Header(JsonType, <<>>)],
   [_body |-> TRUE, body |-> Mapping("json", <<"a">>), hasBody |-> TRUE, header |-> Header(FormType, Utf8)]}

ConcOptions ==
  {Options(Undefined, Number(Num(1)), Undefined, Undefined, Undefined, Undefined),
   Options(Bool(FALSE), Number(Num(2)), Undefined, Function("verify"), Number(Num(2)), Bool(FALSE))}

\* One middleware, two requests whose invocations and reads interleave.
InitConc == InitWith([{1} -> ConcOptions], {1}, [{1, 2} -> ConcRequests])

NextConc ==
  \/ \E i \in DOMAIN prop, o \in DOMAIN heap : Construct(i, o)
  \/ \E i \in DOMAIN prop, r \in DOMAIN req : Invoke(i, r)
  \/ \E r \in DOMAIN req : ReaderFails(r)
  \/ \E r \in DOMAIN req : ReaderOverLimit(r)
  \/ \E r \in DOMAIN req : ReaderDelivers(r)

SpecConc == InitConc /\ [][NextConc]_vars

\* Records for middlewares built one after another: both modes, and a
\* parameterLimit the validation rejects after the parser was looked up.
CacheOptions ==
  {Options(e, p, Undefined, Undefined, Undefined, Undefined) :
     e \in {Undefined, Bool(FALSE)}, p \in {Number(Num(1)), Number(Num(0))}}

\* Three middleware slots built from two records, no request.
InitCache == InitWith([{1, 2} -> CacheOptions], {1, 2, 3}, [{} -> Requests])

NextCache == \E i \in DOMAIN prop, o \in DOMAIN heap : Construct(i, o)

SpecCache == InitCache /\ [][NextCache]_vars

\* A decoder alone: every mode and ceiling against every body.
InitDecode == InitWith([{} -> CtorOptions], {}, [{} -> Requests])

NextDecode ==
  \/ \E mode \in {"extended", "simple"}, v \in Ceilings \cup ParameterLimits : ProbeBuild(mode, v)
  \/ \E body \in Bodies : ProbeDecode(body)

SpecDecode == InitDecode /\ [][NextDecode]_vars

\* ------------------------------------------------------------------ claims

\* An integer ceiling c >= 1 given as a number.
IsIntegerCeiling(v) ==
  /\ v.t = "number"
  /\ v.num.k = "fin"
  /\ ~v.num.neg
  /\ ~v.num.half
  /\ (v.num.hi > 0 \/ v.num.lo >= 1)

\* The body has exactly c - less separators, c being the ceiling v.
HasSeparators(body, v, less) == v.num.hi = 0 /\ Separators(body) = v.num.lo - less

\* The module a mode's decoder takes its parse function from.
ParserOf(mode) == IF mode = "extended" THEN "qs" ELSE "querystring"

\* C1: in both modes and for every integer ceiling c >= 1, decoding a body
\* with exactly c separators fails with the 413 error parameters.too.many and
\* hands nothing to the external parser; decoding a body with exactly c - 1
\* separators does not fail: the external parser is called and its mapping is
\* what the decoder returns.
C1_CeilingIsExact ==
  (probe.calls = 1 /\ IsIntegerCeiling(probe.given)) =>
    /\ HasSeparators(probe.body, probe.given, 0) =>
         /\ probe.out.threw
         /\ probe.out.error.status = 413
         /\ probe.out.error.type = "parameters.too.many"
         /\ ~probe.out.parsed
    /\ HasSeparators(probe.body, probe.given, 1) =>
         /\ ~probe.out.threw
         /\ probe.out.parsed
         /\ probe.out.value = Mapping(ParserOf(probe.mode), probe.body)

\* C1 witness: the simple decoder with ceiling 2 has rejected a body of
\* exactly two separators.
C1_Witness ==
  /\ probe.calls = 1
  /\ probe.mode = "simple"
  /\ probe.given = Number(Num(2))
  /\ Separators(probe.body) = 2
  /\ probe.out.threw

\* A finished invocation.
Done(r) == run[r].pc = "done"

\* An invocation that ended in next() with no error and no call of Reader.
Skipped(r) == Done(r) /\ run[r].reader = 0 /\ run[r].nexts = <<NoError>>

\* C2: for a request already marked parsed, whatever its body field holds
\* (falsy values included), an invocation leaves the body field exactly as it
\* was, never calls Reader, and calls next with no error.
C2_MarkedRequestUntouched ==
  \A r \in DOMAIN req :
    (Done(r) /\ run[r].before._body) =>
      /\ req[r].body = run[r].before.body
      /\ Skipped(r)

\* The request q has a body and its media type does not match checker.
MediaMismatch(q, checker) == q.hasBody /\ ~shouldParse(checker, q)

\* C3 as stated: a request with a body whose media type does not match comes
\* out with no field changed, Reader is never called, next gets no error.
C3_MismatchLeavesRequestUnmodified ==
  \A r \in DOMAIN req :
    (Done(r) /\ MediaMismatch(run[r].before, run[r].checker)) =>
      /\ req[r] = run[r].before
      /\ Skipped(r)

\* C3 amended: for a request not marked parsed that has a body and a media
\* type that does not match, no field changes but the body field, which
\* keeps a truthy value and otherwise becomes the empty mapping; Reader is
\* never called and next gets no error.
C3_MismatchOnlyInitialisesBody ==
  \A r \in DOMAIN req :
    (Done(r) /\ ~run[r].before._body /\ MediaMismatch(run[r].before, run[r].checker)) =>
      /\ req[r] = [run[r].before EXCEPT
                     !.body = IF Truthy(@) THEN @ ELSE EmptyMapping]
      /\ Skipped(r)

\* C3 witness: a JSON request with no body field went through a middleware of
\* the default type and now holds the placeholder.
C3_Witness ==
  \E r \in DOMAIN req :
    /\ Skipped(r)
    /\ ~run[r].before._body
    /\ run[r].before.hasBody
    /\ run[r].before.header.st = "valid"
    /\ run[r].before.header.media = JsonType
    /\ run[r].checker = typeChecker(Token(FormType))
    /\ run[r].before.body = Undefined
    /\ req[r].body = EmptyMapping

\* An invocation that ended in next(err).
Failed(r) == Done(r) /\ \E k \in 1..Len(run[r].nexts) : run[r].nexts[k] # NoError

\* C4 as stated: whenever next is called with an error, the body field holds
\* what it held before the invocation.
C4_ErrorLeavesBodyAsBefore ==
  \A r \in DOMAIN req : Failed(r) => req[r].body = run[r].before.body

\* C4 amended: whenever next is called with an error, no decoded mapping is
\* attached and the request is not marked parsed: the body field holds what
\* it held before if that was truthy, and otherwise the empty placeholder.
C4_ErrorAttachesNoMapping ==
  \A r \in DOMAIN req :
    Failed(r) =>
      /\ req[r]._body = run[r].before._body
      /\ req[r].body = IF Truthy(run[r].before.body) THEN run[r].before.body ELSE EmptyMapping

\* C4 witness: a decoder rejected a delivered body with parameters.too.many
\* and the request still holds the truthy body it came with.
C4_Witness ==
  \E r \in DOMAIN req :
    /\ Failed(r)
    /\ run[r].out.threw
    /\ run[r].nexts[1].type = "parameters.too.many"
    /\ Truthy(run[r].before.body)
    /\ req[r].body = run[r].before.body

\* The request q passes the three eligibility checks of a middleware whose
\* type check is checker.
Eligible(q, checker) == ~q._body /\ q.hasBody /\ shouldParse(checker, q)

\* The spellings of utf-8 among Charsets.
Utf8Spellings == {Utf8, <<"U", "T", "F", "-", "8">>, <<"U", "t", "f", "-", "8">>}

\* The content-type of q declares a charset that is not utf-8 in any case.
DeclaresOtherCharset(q) ==
  /\ q.header.st = "valid"
  /\ q.header.charset # <<>>
  /\ q.header.charset \notin Utf8Spellings

\* next was called with a charset.unsupported error.
CharsetError(r) ==
  \E k \in 1..Len(run[r].nexts) : run[r].nexts[k].type = "charset.unsupported"

\* C5: for an eligible request, a declared charset other than utf-8 (in any
\* letter case) gives next exactly the 415 error charset.unsupported carrying
\* that charset (lower-cased) and Reader is never called; with no charset, an
\* unparsable header or utf-8 in any case there is no charset error and
\* Reader is called with encoding utf-8.
C5_CharsetGate ==
  \A r \in DOMAIN req :
    (run[r].n >= 1 /\ Eligible(run[r].before, run[r].checker)) =>
      IF DeclaresOtherCharset(run[r].before)
      THEN /\ Done(r)
           /\ run[r].reader = 0
           /\ Len(run[r].nexts) = 1
           /\ run[r].nexts[1].status = 415
           /\ run[r].nexts[1].type = "charset.unsupported"
           /\ run[r].nexts[1].charset = toLowerCase(run[r].before.header.charset)
      ELSE /\ run[r].reader = 1
           /\ run[r].readerOptions.encoding = String(Utf8)
           /\ ~CharsetError(r)

\* C5 witness: an eligible request declaring charset=Latin1 was refused.
C5_Witness ==
  \E r \in DOMAIN req :
    /\ Done(r)
    /\ Eligible(run[r].before, run[r].checker)
    /\ run[r].before.header.charset = <<"L", "a", "t", "i", "n", "1">>
    /\ CharsetError(r)

\* C6: after an eligibility skip of a request that had no body field value,
\* the body field holds the empty placeholder; and on no path is a parsed
\* body that was there before replaced by the placeholder.
C6_PlaceholderSparesParsedBody ==
  \A r \in DOMAIN req :
    /\ (Skipped(r) /\ run[r].before.body = Undefined) => req[r].body = EmptyMapping
    /\ (run[r].n >= 1 /\ run[r].before._body /\ run[r].before.body # EmptyMapping) =>
         req[r].body # EmptyMapping

\* The kinds of error acquisition ends with.
AcquisitionErrors ==
  {"request.aborted", "entity.too.large", "encoding.unsupported", "entity.verify.failed"}

\* C7: the Parameter Counter and the Query Decoder run only after Reader has
\* delivered the whole body: none has run while the body is being read, none
\* ever runs when acquisition fails, and then the error Reader reports is the
\* one thing next is called with.
C7_DecodeOnlyAfterAcquisition ==
  \A r \in DOMAIN req :
    /\ run[r].pc = "reading" =>
         run[r].counters = 0 /\ run[r].decoders = 0 /\ run[r].parses = 0
    /\ (Done(r) /\ run[r].reader = 1 /\ run[r].delivered = <<>>) =>
         /\ run[r].counters = 0 /\ run[r].decoders = 0 /\ run[r].parses = 0
         /\ Len(run[r].nexts) = 1
         /\ run[r].nexts[1].type \in AcquisitionErrors
    /\ (run[r].counters > 0 \/ run[r].decoders > 0 \/ run[r].parses > 0) =>
         /\ run[r].delivered # <<>>
         /\ ~OverLimit(run[r].delivered[1], run[r].readerOptions.limit)

\* C7 witness: a body over the limit ended acquisition and nothing was
\* counted or decoded.
C7_Witness ==
  \E r \in DOMAIN req :
    /\ Done(r)
    /\ run[r].nexts = <<HttpError(413, "entity.too.large", <<>>, <<>>)>>
    /\ run[r].counters = 0
    /\ run[r].decoders = 0

\* A parameterLimit that is supplied and is not a finite positive number:
\* not a number at all, NaN, infinite, zero or negative.
NotFinitePositive(v) ==
  /\ v # Undefined
  /\ \/ v.t # "number"
     \/ v.num.k # "fin"
     \/ v.num.neg
     \/ (v.num.hi = 0 /\ v.num.lo = 0 /\ ~v.num.half)

\* C8 as stated: in both modes, a supplied parameterLimit that is not a
\* finite positive number makes the constructor throw and return nothing.
C8_RejectsNotFinitePositive ==
  (ctor.obj # 0 /\ NotFinitePositive(ctor.given.parameterLimit)) =>
    ctor.threw # "" /\ ctor.inst = 0

\* The parameterLimit values whose number is NaN or below 1.
BelowOneOrNaN ==
  {Null, String(<<"b", "e", "e", "p">>), Number(NaN), Number(NegInfinity),
   Number(Num(0)), Number(Num(-1)), Number(Fin(FALSE, 0, 0, TRUE))}

\* The supplied values outside the finite positive numbers the check lets in.
AcceptedAnyway == {Number(Infinity), String(<<"2">>), Bool(TRUE)}

\* C8 amended: in both modes, a supplied parameterLimit whose numeric value is
\* NaN or below 1 makes the constructor throw and return no middleware, and
\* only a constructed middleware ever handles a request; +Infinity and
\* non-numbers whose numeric value is at least 1 do not raise that error.
C8_RejectsBelowOneOrNaN ==
  /\ (ctor.obj # 0 /\ ctor.given.parameterLimit \in BelowOneOrNaN) =>
       ctor.threw # "" /\ ctor.inst = 0
  /\ (ctor.obj # 0 /\ ctor.given.parameterLimit \in AcceptedAnyway) =>
       ctor.threw # "option parameterLimit must be a positive number"
  /\ ctor.threw # "" => ctor.inst = 0
  /\ \A r \in DOMAIN req : run[r].inst # 0 => prop[run[r].inst] # 0

\* C8 witness: the simple-mode constructor threw on parameterLimit 0.
C8_Witness ==
  /\ ctor.obj # 0
  /\ ctor.given.extended = Bool(FALSE)
  /\ ctor.given.parameterLimit = Number(Num(0))
  /\ ctor.threw = "option parameterLimit must be a positive number"
  /\ ctor.inst = 0

\* C9: every request a middleware handles is processed with the
\* configuration the middleware was constructed with: its type check, the
\* limit, inflate flag and verify callback given to Reader, and its decoder.
C9_ConfigurationFixed ==
  \A r \in DOMAIN req :
    (run[r].n >= 1 /\ run[r].inst # 0) =>
      /\ run[r].checker = built[run[r].inst].shouldParse
      /\ run[r].reader = 1 =>
           /\ run[r].readerOptions.limit = built[run[r].inst].parsedLimit
           /\ run[r].readerOptions.inflate = built[run[r].inst].parsedInflate
           /\ run[r].readerOptions.verify = built[run[r].inst].parsedVerify
      /\ run[r].decoder # NoDecoder => run[r].decoder = built[run[r].inst].queryparse

\* C10: a request that fails any of the three eligibility checks is skipped
\* (next with no error, Reader not called) even when its content-type
\* declares an unsupported charset; a charset.unsupported error is given only
\* for a request that passed all three.
C10_EligibilityBeforeCharset ==
  \A r \in DOMAIN req :
    run[r].n >= 1 =>
      /\ ~Eligible(run[r].before, run[r].checker) => Skipped(r)
      /\ CharsetError(r) => Eligible(run[r].before, run[r].checker)

\* C10 witness: a bodiless request declaring charset=latin1 was skipped.
C10_Witness ==
  \E r \in DOMAIN req :
    /\ Skipped(r)
    /\ ~run[r].before._body
    /\ ~run[r].before.hasBody
    /\ run[r].before.header.charset = Latin1

\* A parameterLimit the constructor accepts as a finite number: any number
\* that is at least 1, whole or not.
AcceptedFinite(v) ==
  /\ v.t = "number"
  /\ v.num.k = "fin"
  /\ ~v.num.neg
  /\ (v.num.hi > 0 \/ v.num.lo >= 1)

\* C11: for every finite parameterLimit accepted (any number >= 1, fractions
\* and values of 2^31 or more included) the ceiling the Parameter Counter
\* uses is a positive integer equal to the integer part of the configured
\* value; an accepted +Infinity is unbounded; the coercion never yields zero
\* or a negative ceiling.
C11_CeilingIsIntegerPart ==
  probe.decoder # NoDecoder =>
    /\ AcceptedFinite(probe.given) =>
         /\ probe.decoder.limit.finite
         /\ probe.decoder.limit.n >= 1
         /\ probe.decoder.limit.n \div Two16 = probe.given.num.hi
         /\ probe.decoder.limit.n % Two16 = probe.given.num.lo
    /\ probe.given = Number(Infinity) => ~probe.decoder.limit.finite
    /\ probe.decoder.limit.finite => probe.decoder.limit.n >= 1

\* A classified error: a status and a kind.
Classified(e) == e.status >= 400 /\ e.type # ""

\* C12: every invocation calls next exactly once: nothing while Reader is
\* still reading, and once it is finished exactly one call, with no error or
\* with one classified error; never a second call.
C12_NextExactlyOnce ==
  \A r \in DOMAIN req :
    run[r].n >= 1 =>
      /\ Len(run[r].nexts) <= 1
      /\ run[r].pc = "reading" => run[r].nexts = <<>>
      /\ Done(r) =>
           /\ Len(run[r].nexts) = 1
           /\ run[r].nexts[1] = NoError \/ Classified(run[r].nexts[1])

\* C12 witness: Reader was called, the decoder threw parameters.too.many, and
\* next was called once, with that error.
C12_Witness ==
  \E r \in DOMAIN req :
    /\ Done(r)
    /\ run[r].reader = 1
    /\ run[r].out.threw
    /\ run[r].nexts = <<HttpError(413, "parameters.too.many", <<>>, <<>>)>>

\* C13: with several requests in flight on one middleware, in any
\* interleaving, each request's gates, Reader options, calls of next and final
\* fields are those the middleware gives that request alone, from its own
\* fields and the body delivered for it; nothing of another request shows.
C13_RequestsIndependent ==
  \A r \in DOMAIN req :
    run[r].n >= 1 =>
      LET self == heap[prop[run[r].inst]]
          alone == Middleware(self, run[r].before)
      IN  /\ run[r].readerOptions = alone.readerOptions
          /\ (run[r].pc = "reading") = (alone.proceed /\ ~Done(r))
          /\ (run[r].pc = "reading" \/ ~alone.proceed) =>
               req[r] = alone.req /\ run[r].nexts = alone.nexts
          /\ (Done(r) /\ alone.proceed /\ run[r].delivered = <<>>) =>
               /\ req[r] = alone.req
               /\ Len(run[r].nexts) = 1
               /\ run[r].nexts[1].type \in AcquisitionErrors
          /\ (Done(r) /\ alone.proceed /\ run[r].delivered # <<>>) =>
               LET cb == parseBody(self, run[r].delivered[1])
               IN  /\ run[r].out = cb.out
                   /\ run[r].nexts = <<IF cb.out.threw THEN cb.out.error ELSE NoError>>
                   /\ req[r] = IF cb.out.threw
                               THEN alone.req
                               ELSE [alone.req EXCEPT !.body = cb.out.value, !._body = TRUE]

\* C13 witness: a request got its own mapping attached while the other
\* request was still being read.
C13_Witness ==
  \E r \in DOMAIN req :
    /\ Done(r)
    /\ run[r].overlapped
    /\ run[r].delivered # <<>>
    /\ run[r].delivered[1] # <<>>
    /\ req[r].body = Mapping(run[r].decoder.parse, run[r].delivered[1])
Acquired(r) == Done(r) /\ run[r].delivered # <<>>

\* C14: when the body acquired for an eligible request is empty, the request
\* gets the empty mapping and neither the Parameter Counter nor an external
\* parser runs, whatever the decoder mode and ceiling; when it is not empty,
\* the decoder the configuration selected is called exactly once.
C14_EmptyBodyFastPath ==
  \A r \in DOMAIN req :
    Acquired(r) =>
      LET self == heap[prop[run[r].inst]]
      IN  IF run[r].delivered[1] = <<>>
          THEN /\ req[r].body = EmptyMapping
               /\ req[r]._body
               /\ run[r].nexts = <<NoError>>
               /\ run[r].counters = 0
               /\ run[r].parses = 0
               /\ run[r].decoders = 0
          ELSE /\ run[r].decoders = 1
               /\ run[r].counters = 1
               /\ run[r].decoder = self.queryparse
               /\ run[r].decoder.parse = ParserOf(run[r].decoder.mode)
               /\ run[r].decoder.mode =
                    (IF self.extended = Bool(FALSE) THEN "simple" ELSE "extended")

\* C14 witness: an empty body was acquired on a middleware whose ceiling is
\* 1, and the request carries the empty mapping.
C14_Witness ==
  \E r \in DOMAIN req :
    /\ Acquired(r)
    /\ run[r].delivered[1] = <<>>
    /\ heap[prop[run[r].inst]].queryparse.limit = [finite |-> TRUE, n |-> 1]
    /\ req[r].body = EmptyMapping

Min(a, b) == IF a < b THEN a ELSE b

\* C15: for every body and every positive integer ceiling the Parameter
\* Counter runs at most min(ceiling, separators of the body) iterations. It
\* gives the over-limit answer exactly when the count reaches the ceiling,
\* having read up to that separator and nothing after it; otherwise it ends
\* with the number of separators of the body, which is below the ceiling.
C15_CounterIsBounded ==
  (probe.calls = 1 /\ probe.decoder.limit.finite /\ probe.decoder.limit.n >= 1) =>
    LET ceiling == probe.decoder.limit.n
        separators == Separators(probe.body)
        c == probe.out.counted
    IN  /\ c.iters <= Min(ceiling, separators)
        /\ c.over = (separators >= ceiling)
        /\ c.over =>
             /\ c.count = ceiling
             /\ c.iters = ceiling
             /\ probe.body[c.scanned] = "&"
             /\ Separators(SubSeq(probe.body, 1, c.scanned)) = ceiling
        /\ ~c.over =>
             /\ c.count = separators
             /\ c.iters = separators
             /\ c.scanned = Len(probe.body)
             /\ separators < ceiling

\* C15 witness: with ceiling 1 the counter stopped at the first separator of
\* a body that has another one further on.
C15_Witness ==
  /\ probe.calls = 1
  /\ probe.decoder.limit = [finite |-> TRUE, n |-> 1]
  /\ probe.out.counted.over
  /\ probe.out.counted.scanned < Len(probe.body)
  /\ Separators(probe.body) > 1

VerifyError == "option verify must be function"

\* C16: a constructor call whose verify option is present and not a function
\* (falsy values included) throws and returns no middleware; the verify
\* error is thrown only for such a value.
C16_RejectsNonCallableVerify ==
  ctor.obj # 0 =>
    /\ (ctor.given.verify # Undefined /\ TypeOf(ctor.given.verify) # "function") =>
         ctor.threw # "" /\ ctor.inst = 0
    /\ ctor.threw = VerifyError =>
         ctor.given.verify # Undefined /\ TypeOf(ctor.given.verify) # "function"

Max(a, b) == IF a > b THEN a ELSE b

\* The ceiling a parameterLimit option configures: 1000 when absent, no
\* ceiling for Infinity, else the integer part of the number given.
IsConfiguredCeiling(limit, v) ==
  LET x == ToNumber(GivenParameterLimit(
             Options(Undefined, v, Undefined, Undefined, Undefined, Undefined)))
  IN  IF x.k = "inf"
      THEN ~limit.finite
      ELSE /\ limit.finite
           /\ limit.n >= 1
           /\ limit.n \div Two16 = x.hi
           /\ limit.n % Two16 = x.lo

\* C17: a body the extended decoder accepts goes to the external parser with
\* array limit max(100, separators counted), never below 100, and unbounded
\* depth; a body the simple decoder accepts goes with maxKeys equal to the
\* configured ceiling; a body the Parameter Counter found over the limit goes
\* to neither parser.
C17_ParserLimits ==
  probe.calls = 1 =>
    /\ probe.out.counted.over => ~probe.out.parsed /\ probe.out.threw
    /\ (probe.out.parsed /\ probe.mode = "extended") =>
         /\ probe.out.arrayLimit = Max(MinArrayLimit, Separators(probe.body))
         /\ probe.out.arrayLimit >= MinArrayLimit
         /\ probe.out.counted.count = Separators(probe.body)
         /\ probe.out.depth = "Infinity"
    /\ (probe.out.parsed /\ probe.mode = "simple") =>
         IsConfiguredCeiling(probe.out.maxKeys, probe.given)

\* C18: over any number of constructions, require() runs at most once for
\* each of 'qs' and 'querystring'; a cache entry is empty until that load
\* and holds the loaded module from then on; every decoder built captured
\* the parse function of the module cached under its strategy's name.
C18_CacheWriteOnce ==
  /\ \A n \in ParserNames :
       /\ requires[n] <= 1
       /\ requires[n] = 0 => parsers[n] = "undefined"
       /\ requires[n] = 1 => parsers[n] = n
  /\ \A i \in DOMAIN prop :
       prop[i] # 0 =>
         /\ built[i].queryparse.parse = ParserOf(built[i].queryparse.mode)
         /\ built[i].queryparse.parse = parsers[ParserOf(built[i].queryparse.mode)]

\* C18 witness: two extended middlewares were built, and then a simple
\* construction threw after its lookup; each module was loaded once.
C18_Witness ==
  /\ Cardinality({i \in DOMAIN prop :
                    prop[i] # 0 /\ built[i].queryparse.mode = "extended"}) = 2
  /\ ctor.threw # ""
  /\ ctor.given.extended = Bool(FALSE)
  /\ requires = [n \in ParserNames |-> 1]

====
